---------------------------- MODULE Spec2Model ----------------------------
(***************************************************************************)
(* node-gyp: the two commands lib/configure.js and lib/build.js.           *)
(*                                                                         *)
(* One process runs one command.  Every asynchronous completion (a file    *)
(* system call, an external collaborator's callback, a child's exit        *)
(* event) is one action: the code that runs from that completion up to     *)
(* the next suspension point.                                              *)
(*                                                                         *)
(* Strings are atomic values except where the code looks inside them       *)
(* (the --nodedir/home directory replacement, parseInt of the job count):  *)
(* those are sequences of one-character strings.  An error is a record     *)
(* [code, msg]; msg is the message as a sequence of its parts, so that     *)
(* "the message names X" is "X is one of the parts".                       *)
(***************************************************************************)
EXTENDS Integers, Sequences, FiniteSets, TLC

\* ----------------------------------------------------------------- bounds
\* exit codes of a child are 0..MaxExitCode
MaxExitCode == 1
\* the host has 1..MaxCpus logical cores
MaxCpus == 2

\* ------------------------------------------------------------ JS values
\* undefined and null; an absent or empty string option is the empty
\* sequence (both are falsy, and the code only tests them for truth)
Undefined == "undefined"
Null == "null"

Platforms == {"linux", "win32", "aix", "os400", "os390", "freebsd"}
Signals == {"SIGTERM"}
ExitCodes == {ToString(c) : c \in 0..MaxExitCode}

\* What a child's 'exit' event carries: an exit code and no signal, or no
\* exit code (null) and the signal that ended the child.
ExitEvents ==
    {[code |-> c, signal |-> Null] : c \in ExitCodes}
        \cup {[code |-> Null, signal |-> s] : s \in Signals}

\* new Error(msg), and an error of the file system with its code
NewError(msg) == [code |-> Undefined, msg |-> msg]
FsError(code) == [code |-> code, msg |-> <<code>>]
NoError == [code |-> Null, msg |-> <<>>]

Names(err, part) == \E i \in 1..Len(err.msg) : err.msg[i] = part

Truthy(s) == Len(s) > 0
\* a || b on strings
Or(a, b) == IF Truthy(a) THEN a ELSE b

VARIABLES
    platform,       \* process.platform
    cpus,           \* require('os').cpus().length
    verbose,        \* log.logger.isVisible('verbose')
    fsys,           \* the files the commands read and write
    cmd,            \* the command this process runs
    pc,             \* the completion the command is waiting for
    opts,           \* gyp.opts
    env,            \* process.env
    argv,
    command, jobs, buildType, config, arch, nodeDir, guessedSolution,
    python, buildBinsDir,
    spawns,         \* gyp.spawn calls so far: <<[command, argv]>>
    exit,           \* the 'exit' event the running handler was given
    settled,        \* the promise build() returned
    callbacks,      \* the calls of the command's callback so far
    release,        \* processRelease(...)
    homedir,        \* os.homedir()
    configs, configNames,
    name,           \* the fragment name findConfigs is looking at
    installs,       \* gyp.commands.install calls so far
    steps,          \* the steps configure has started, in order
    results         \* what the started steps have answered, in order

hostVars == <<platform, cpus, verbose>>
confVars == <<release, homedir, configs, configNames, name, installs, steps,
              results>>
buildOnly == <<command, jobs, buildType, config, arch, guessedSolution, buildBinsDir,
               settled, cpus, verbose>>
buildVars == <<command, jobs, buildType, config, arch, nodeDir, guessedSolution,
               python, buildBinsDir>>

isWin(p) == p = "win32"
win == isWin(platform)


\* ======================================================= lib/build.js

\* ---- the build/config.gypi artifact and the rest of build/
NoConfig ==
    [target_defaults |-> [default_configuration |-> ""],
     variables |-> [target_arch |-> <<>>, nodedir |-> "", python |-> Undefined,
                    msbuild_path |-> ""]]

\* the artifacts a configure run can have left: default_configuration may
\* be missing, python is missing in artifacts of older versions, and
\* msbuild_path is there on Windows only
ArtifactFile(d, a, y, m) ==
    [kind |-> "file", code |-> Null,
     data |-> [target_defaults |-> [default_configuration |-> d],
               variables |-> [target_arch |-> a, nodedir |-> "/devdir/18.0.0",
                              python |-> y, msbuild_path |-> m]]]

NoArtifact ==
    {[kind |-> "absent", code |-> "ENOENT", data |-> NoConfig],
     [kind |-> "unreadable", code |-> "EACCES", data |-> NoConfig]}

Artifacts(p) ==
    IF p = "win32"
    THEN NoArtifact \cup
         {ArtifactFile(d, a, "C:/Python/python.exe", m) :
            d \in {"", "Debug"},
            a \in {<<"x", "6", "4">>, <<"A", "r", "m">>, <<"A", "R", "M", "6", "4">>,
                    <<"i", "a", "3", "2">>},
            m \in {"", "C:/VS/MSBuild.exe"}}
    ELSE NoArtifact \cup
         {ArtifactFile(d, <<"x", "6", "4">>, y, "") :
            d \in {"", "Debug"}, y \in {Undefined, "/usr/bin/python3.11"}}

\* build/node_gyp_bins before the run: absent, or left behind by an earlier
\* run with python3 in it a symlink (its target), or something that unlink
\* cannot remove ("dir")
BinsStates ==
    {[bins |-> "absent", python3 |-> "absent"],
     [bins |-> "present", python3 |-> "absent"],
     [bins |-> "present", python3 |-> "/old/python3"],
     [bins |-> "present", python3 |-> "dir"]}

\* fs.readFile(build/config.gypi)
readFile(fs) ==
    IF fs.artifact.kind = "file"
    THEN [err |-> NoError, data |-> fs.artifact.data]
    ELSE [err |-> FsError(fs.artifact.code), data |-> NoConfig]

\* (the message, without its backquotes)
ConfigureFirst == "You must run node-gyp configure first!"

\* (faulty variant: every read error is thrown as it is)
loadConfigGypiCatchRaw(err) == err

\* the catch of loadConfigGypi: what a failed read throws
loadConfigGypiCatch(err) ==
    IF err.code = "ENOENT" THEN NewError(<<ConfigureFirst>>) ELSE err

\* (faulty variant: the stored build type wins over the debug flag)
loadBuildTypeStored(cfg, o) ==
    LET stored == cfg.target_defaults.default_configuration
        flagged == IF o.debug # Undefined
                   THEN (IF o.debug = "true" THEN "Debug" ELSE "Release")
                   ELSE "Release"
    IN  IF stored = "" THEN flagged ELSE stored

\* the build type of loadConfigGypi
loadBuildType(cfg, o) ==
    LET stored == cfg.target_defaults.default_configuration
        flagged == IF o.debug # Undefined
                   THEN (IF o.debug = "true" THEN "Debug" ELSE "Release")
                   ELSE stored
    IN  IF flagged = "" THEN "Release" ELSE flagged

\* the characters of process.platform
PlatformChars ==
    [p \in Platforms |->
        CASE p = "linux" -> <<"l", "i", "n", "u", "x">>
          [] p = "win32" -> <<"w", "i", "n", "3", "2">>
          [] p = "aix" -> <<"a", "i", "x">>
          [] p = "os400" -> <<"o", "s", "4", "0", "0">>
          [] p = "os390" -> <<"o", "s", "3", "9", "0">>
          [] p = "freebsd" -> <<"f", "r", "e", "e", "b", "s", "d">>]

\* s.indexOf(sub), counted from 0; -1 when sub is not in s
indexOf(s, sub) ==
    LET at == {i \in 1..(Len(s) - Len(sub) + 1) : SubSeq(s, i, i + Len(sub) - 1) = sub}
    IN  IF at = {} THEN -1 ELSE (CHOOSE i \in at : \A j \in at : i <= j) - 1

\* (faulty variant: make on every platform)
platformMakePlain(p) == "make"

\* the make command of a platform
platformMake(p) ==
    IF p = "aix" THEN "gmake"
    ELSE IF p = "os400" THEN "gmake"
    ELSE IF indexOf(PlatformChars[p], <<"b", "s", "d">>) # -1 THEN "gmake"
    ELSE "make"

\* ---- strings the code looks inside
Digits == <<"0", "1", "2", "3", "4", "5", "6", "7", "8", "9">>
IsDigit(c) == \E d \in 1..10 : Digits[d] = c
DigitVal(c) == (CHOOSE d \in 1..10 : Digits[d] = c) - 1

RECURSIVE DigitPrefix(_)
DigitPrefix(s) ==
    IF s = <<>> \/ ~IsDigit(Head(s)) THEN <<>>
    ELSE <<Head(s)>> \o DigitPrefix(Tail(s))

RECURSIVE DecVal(_, _)
DecVal(s, acc) ==
    IF s = <<>> THEN acc ELSE DecVal(Tail(s), acc * 10 + DigitVal(Head(s)))

RECURSIVE SkipSpace(_)
SkipSpace(s) == IF s # <<>> /\ Head(s) = " " THEN SkipSpace(Tail(s)) ELSE s

\* parseInt(s, 10): leading blanks, a sign, then the longest run of digits;
\* NaN when there is no digit
parseInt(s) ==
    LET t == SkipSpace(s)
        neg == t # <<>> /\ Head(t) = "-"
        u == IF t # <<>> /\ Head(t) \in {"-", "+"} THEN Tail(t) ELSE t
        d == DigitPrefix(u)
    IN  IF d = <<>> THEN [nan |-> TRUE, val |-> 0]
        ELSE [nan |-> FALSE, val |-> IF neg THEN 0 - DecVal(d, 0) ELSE DecVal(d, 0)]

LowerOf == [c \in {"A", "M", "R", "X", "I"} |->
              CASE c = "A" -> "a" [] c = "M" -> "m" [] c = "R" -> "r"
                [] c = "X" -> "x" [] c = "I" -> "i"]
UpperOf == [c \in {"a", "m", "r", "x", "i"} |->
              CASE c = "a" -> "A" [] c = "m" -> "M" [] c = "r" -> "R"
                [] c = "x" -> "X" [] c = "i" -> "I"]
toLowerCase(s) == [i \in 1..Len(s) |-> IF s[i] \in DOMAIN LowerOf THEN LowerOf[s[i]] ELSE s[i]]
toUpperCase(s) == [i \in 1..Len(s) |-> IF s[i] \in DOMAIN UpperOf THEN UpperOf[s[i]] ELSE s[i]]

\* whether path.extname(arg) is .sln, for the arguments of the model
SlnArgs == {"my.sln", "/t:my.sln", "build/binding.sln"}
hasSln(av) == \E i \in 1..Len(av) : av[i] \in SlnArgs

\* ---- doBuild: the arguments of the build executor

\* (faulty variant: the architecture is compared as it is written)
msbuildPlatformExact(a) ==
    IF a = <<"x", "6", "4">> THEN "x64"
    ELSE IF a = <<"a", "r", "m">> THEN "ARM"
    ELSE IF a = <<"a", "r", "m", "6", "4">> THEN "ARM64"
    ELSE "Win32"

\* the /Platform of MSBuild for the target_arch of the artifact
msbuildPlatform(a) ==
    LET archLower == toLowerCase(a)
    IN  IF archLower = <<"x", "6", "4">> THEN "x64"
        ELSE IF archLower = <<"a", "r", "m">> THEN "ARM"
        ELSE IF archLower = <<"a", "r", "m", "6", "4">> THEN "ARM64"
        ELSE "Win32"

\* (faulty variant: only a number is a job count)
jobsCountNumeric(js, ncpu) ==
    IF ~Truthy(js) THEN 0
    ELSE LET j == parseInt(js)
         IN  IF ~j.nan /\ j.val > 0 THEN j.val ELSE 0

\* the job count of the parallelism flag; 0 when there is no flag
jobsCount(js, ncpu) ==
    IF ~Truthy(js) THEN 0
    ELSE LET j == parseInt(js)
         IN  IF ~j.nan /\ j.val > 0 THEN j.val
             ELSE IF toUpperCase(js) = <<"M", "A", "X">> THEN ncpu
             ELSE 0

doBuildArgv(av, w, verb, bt, a, js, ncpu, solution) ==
    LET n == jobsCount(js, ncpu)
        a1 == IF ~w /\ verb THEN Append(av, "V=1") ELSE av
        a2 == IF w /\ ~verb THEN Append(a1, "/clp:Verbosity=minimal") ELSE a1
        a3 == IF w THEN Append(a2, "/nologo") ELSE a2
        a4 == IF w
              THEN Append(a3, "/p:Configuration=" \o bt \o ";Platform=" \o msbuildPlatform(a))
                     \o (IF n > 0 THEN <<"/m:" \o ToString(n)>> ELSE <<>>)
              ELSE a3 \o <<"BUILDTYPE=" \o bt, "-C", "build">>
                     \o (IF n > 0 THEN <<"--jobs", ToString(n)>> ELSE <<>>)
    IN  IF w /\ ~hasSln(a4) THEN <<solution>> \o a4 ELSE a4


\* ---- the promise of build() and the callback of module.exports
Pending == [state |-> "pending", err |-> NoError]
Resolved == [state |-> "resolved", err |-> NoError]
Rejected(err) == [state |-> "rejected", err |-> err]

\* the outcome the exit handler gives the promise
exitOutcome(cmdName, code, signal) ==
    IF code # "0"
    THEN Rejected(NewError(<<cmdName, "failed with exit code:", code>>))
    ELSE IF signal # Null
    THEN Rejected(NewError(<<cmdName, "got signal:", signal>>))
    ELSE Resolved

\* a rejection anywhere in build() rejects its promise
Throw(err) ==
    /\ settled' = Rejected(err)
    /\ pc' = "settled"

BinsDir == "build/node_gyp_bins"

\* gyp.spawn(command, argv)
Spawn(c, av) == spawns' = Append(spawns, [command |-> c, argv |-> av])

\* ---- build(gyp, argv), up to the read of build/config.gypi
BuildOpts ==
    [debug : {Undefined, "true", "false"}, make : {"", "mymake"},
     jobs : {<<>>, <<"M", "a", "x">>, <<"2">>, <<"b">>}, solution : {""}]
BuildEnv == [MAKE : {"", "envmake"}, JOBS : {<<>>, <<"3">>}]
BuildArgv == {<<>>, <<"all">>}

\* the options and the environment of a build run: at most one of the
\* debug flag, the make command and the job count is given
BuildCalls ==
    {c \in [opts : BuildOpts, env : BuildEnv] :
        Cardinality({k \in {"debug", "make", "jobs"} :
            \/ k = "debug" /\ c.opts.debug # Undefined
            \/ k = "make" /\ (Truthy(c.opts.make) \/ Truthy(c.env.MAKE))
            \/ k = "jobs" /\ (Truthy(c.opts.jobs) \/ Truthy(c.env.JOBS))}) <= 1}

\* what of the machine a build run on platform p reads
BuildWorlds(p) ==
    IF p = "win32"
    THEN [artifact : Artifacts(p), bins : {[bins |-> "absent", python3 |-> "absent"]},
          onPath : {{}}, slns : {<<>>, <<"build/binding.sln">>}]
    ELSE [artifact : Artifacts(p), bins : BinsStates,
          onPath : {{}, {"make", "gmake", "mymake", "envmake"}}, slns : {<<>>}]

build(p, ncpu, verb, o, e, av, w) ==
    /\ cmd = "none"
    /\ cmd' = "build"
    /\ platform' = p
    /\ cpus' = ncpu
    /\ verbose' = verb
    /\ opts' = o
    /\ env' = [env EXCEPT !.MAKE = e.MAKE, !.JOBS = e.JOBS]
    /\ fsys' = [fsys EXCEPT !.artifact = w.artifact, !.bins = w.bins.bins,
                            !.python3 = w.bins.python3, !.onPath = w.onPath,
                            !.slns = w.slns]
    /\ argv' = IF platformMake(p) = "make" /\ isWin(p) /\ Len(av) > 0
               THEN [i \in 1..Len(av) |-> "/t:" \o av[i]]
               ELSE av
    /\ command' = IF isWin(p) THEN "msbuild"
                  ELSE Or(o.make, Or(e.MAKE, platformMake(p)))
    /\ jobs' = Or(o.jobs, e.JOBS)
    /\ pc' = "readFile"
    /\ UNCHANGED <<buildType, config, arch, nodeDir, guessedSolution, python,
                   buildBinsDir, spawns, exit, settled, callbacks, confVars>>

\* ---- loadConfigGypi, from the completion of the read to glob or which
loadConfigGypi ==
    /\ cmd = "build" /\ pc = "readFile"
    /\ LET r == readFile(fsys)
       IN  IF r.err # NoError
           THEN /\ Throw(loadConfigGypiCatch(r.err))
                /\ UNCHANGED <<config, buildType, arch, nodeDir, python>>
           ELSE /\ config' = r.data
                /\ buildType' = loadBuildType(r.data, opts)
                /\ arch' = r.data.variables.target_arch
                /\ nodeDir' = r.data.variables.nodedir
                /\ python' = r.data.variables.python
                /\ pc' = IF win THEN "glob" ELSE "which"
                /\ UNCHANGED settled
    /\ UNCHANGED <<hostVars, confVars, fsys, cmd, opts, env, argv, command, jobs,
                   guessedSolution, buildBinsDir, spawns, exit, callbacks>>

\* ---- findSolutionFile from the completion of the glob, then (Windows)
\* doWhich and doBuild up to the wait for the child
findSolutionFile ==
    /\ cmd = "build" /\ pc = "glob"
    /\ LET files == fsys.slns
       IN  IF Len(files) = 0
           THEN /\ Throw(NewError(<<"Could not find *.sln file. Did you run configure?">>))
                /\ UNCHANGED <<guessedSolution, command, argv, spawns>>
           ELSE /\ guessedSolution' = files[1]
                /\ IF ~Truthy(config.variables.msbuild_path)
                   THEN /\ Throw(NewError(<<"MSBuild is not set, please run node-gyp configure.">>))
                        /\ UNCHANGED <<command, argv, spawns>>
                   ELSE /\ command' = config.variables.msbuild_path
                        /\ argv' = doBuildArgv(argv, TRUE, verbose, buildType, arch,
                                               jobs, cpus,
                                               Or(opts.solution, guessedSolution'))
                        /\ Spawn(command', argv')
                        /\ pc' = "child"
                        /\ UNCHANGED settled
    /\ UNCHANGED <<hostVars, confVars, fsys, cmd, opts, env, jobs, buildType, config, arch,
                   nodeDir, python, buildBinsDir, exit, callbacks>>

\* (faulty variant: every command is found)
whichFindsAll(fs, c) == NoError

\* what which(command) answers
which(fs, c) ==
    IF c \in fs.onPath THEN NoError
    ELSE [code |-> "ENOENT", msg |-> <<"not found:", c>>]

\* ---- doWhich from the completion of which(command), then doBuild up to
\* the mkdir of build/node_gyp_bins
doWhich ==
    /\ cmd = "build" /\ pc = "which"
    /\ IF which(fsys, command) # NoError
       THEN /\ Throw(which(fsys, command))
            /\ UNCHANGED <<argv, buildBinsDir, env>>
       ELSE /\ argv' = doBuildArgv(argv, FALSE, verbose, buildType, arch, jobs,
                                   cpus, "")
            /\ buildBinsDir' = BinsDir
            /\ env' = [env EXCEPT !.PATH = <<BinsDir>> \o env.PATH]
            /\ pc' = "mkdir"
            /\ UNCHANGED settled
    /\ UNCHANGED <<hostVars, confVars, fsys, cmd, opts, command, jobs, buildType, config,
                   arch, nodeDir, guessedSolution, python, spawns, exit,
                   callbacks>>


\* ---- doBuild, the scoped build/node_gyp_bins

\* fs.mkdir(buildBinsDir, {recursive: true}) completes (err is "" or a code)
doBuildMkdir(err) ==
    /\ cmd = "build" /\ pc = "mkdir"
    /\ IF err # ""
       THEN /\ Throw(FsError(err))
            /\ UNCHANGED fsys
       ELSE /\ fsys' = [fsys EXCEPT !.bins = "present",
                                    !.mkdirs = @ + (IF fsys.bins = "absent" THEN 1 ELSE 0)]
            /\ pc' = "unlink"
            /\ UNCHANGED settled
    /\ UNCHANGED <<hostVars, confVars, cmd, opts, env, argv, buildVars, spawns, exit,
                   callbacks>>

\* what fs.unlink(build/node_gyp_bins/python3) answers
unlink(fs) ==
    IF fs.python3 = "absent" THEN FsError("ENOENT")
    ELSE IF fs.python3 = "dir" THEN FsError("EISDIR")
    ELSE NoError

\* the catch around the unlink: the error it lets through
unlinkCatch(err) == IF err.code # "ENOENT" THEN err ELSE NoError

doBuildUnlink ==
    /\ cmd = "build" /\ pc = "unlink"
    /\ LET thrown == IF unlink(fsys) = NoError THEN NoError
                     ELSE unlinkCatch(unlink(fsys))
       IN  IF thrown # NoError
           THEN /\ Throw(thrown)
                /\ UNCHANGED fsys
           ELSE /\ fsys' = [fsys EXCEPT !.python3 = "absent"]
                /\ pc' = "symlink"
                /\ UNCHANGED settled
    /\ UNCHANGED <<hostVars, confVars, cmd, opts, env, argv, buildVars, spawns, exit,
                   callbacks>>

\* what fs.symlink(python, build/node_gyp_bins/python3) answers: a target
\* that is undefined is refused, and so is a name that is taken
symlink(fs, target) ==
    IF target = Undefined THEN FsError("ERR_INVALID_ARG_TYPE")
    ELSE IF fs.python3 # "absent" THEN FsError("EEXIST")
    ELSE NoError

\* fs.symlink completes; on success the executor is spawned
doBuildSymlink ==
    /\ cmd = "build" /\ pc = "symlink"
    /\ IF symlink(fsys, python) # NoError
       THEN /\ Throw(symlink(fsys, python))
            /\ UNCHANGED <<fsys, spawns>>
       ELSE /\ fsys' = [fsys EXCEPT !.python3 = python]
            /\ Spawn(command, argv)
            /\ pc' = "child"
            /\ UNCHANGED settled
    /\ UNCHANGED <<hostVars, confVars, cmd, opts, env, argv, buildVars, exit, callbacks>>

\* ---- the exit handler of the child, up to the removal of the directory
onExit(ev) ==
    /\ cmd = "build" /\ pc = "child"
    /\ exit' = ev
    /\ IF Truthy(buildBinsDir)
       THEN /\ pc' = "rm"
            /\ UNCHANGED settled
       ELSE /\ settled' = exitOutcome(command, ev.code, ev.signal)
            /\ pc' = "settled"
    /\ UNCHANGED <<hostVars, confVars, fsys, cmd, opts, env, argv, buildVars, spawns,
                   callbacks>>

\* (faulty variant: the removal leaves the directory)
rmKeeps(fs) == fs

\* the files after fs.rm(buildBinsDir, {recursive: true})
rm(fs) == [fs EXCEPT !.bins = "absent", !.python3 = "absent"]

\* fs.rm(buildBinsDir, {recursive: true}) completes (err is "" or a code).
\* A failure rejects the promise of the handler, which nothing awaits: the
\* promise of build() stays pending.
onExitRm(err) ==
    /\ cmd = "build" /\ pc = "rm"
    /\ IF err # ""
       THEN /\ pc' = "unhandled"
            /\ UNCHANGED <<fsys, settled>>
       ELSE /\ fsys' = rm(fsys)
            /\ settled' = exitOutcome(command, exit.code, exit.signal)
            /\ pc' = "settled"
    /\ UNCHANGED <<hostVars, confVars, cmd, opts, env, argv, buildVars, spawns, exit,
                   callbacks>>

\* ---- module.exports: build(gyp, argv).then(callback.bind(undefined, null), callback)
buildCallback ==
    /\ cmd = "build" /\ pc = "settled"
    /\ callbacks' = Append(callbacks, settled.err)
    /\ pc' = "done"
    /\ UNCHANGED <<hostVars, confVars, fsys, cmd, opts, env, argv, buildVars, spawns, exit,
                   settled>>

\* =================================================== lib/configure.js

RECURSIVE Join(_)
\* a string from its characters
Join(s) == IF s = <<>> THEN "" ELSE Head(s) \o Join(Tail(s))

RECURSIVE expandReplacement(_, _)
\* The replacement string of String.prototype.replace: $$ stands for a
\* dollar sign and $& for the matched text.
expandReplacement(r, matched) ==
    IF r = <<>> THEN <<>>
    ELSE IF Len(r) >= 2 /\ r[1] = "$" /\ r[2] = "$"
    THEN <<"$">> \o expandReplacement(SubSeq(r, 3, Len(r)), matched)
    ELSE IF Len(r) >= 2 /\ r[1] = "$" /\ r[2] = "&"
    THEN matched \o expandReplacement(SubSeq(r, 3, Len(r)), matched)
    ELSE <<Head(r)>> \o expandReplacement(Tail(r), matched)

\* gyp.opts.nodedir.replace(/^~/, os.homedir())
expandNodedir(dir, home) ==
    IF dir # <<>> /\ Head(dir) = "~"
    THEN Join(expandReplacement(home, <<"~">>) \o Tail(dir))
    ELSE Join(dir)

\* process.version of the host
ProcessVersion == "v18.0.0"

\* processRelease(argv, gyp, process.version, process.release): the host's
\* version, another version, and a version that does not parse
Releases ==
    {[version |-> "18.0.0", semver |-> "18.0.0", versionDir |-> "18.0.0",
      name |-> "node", major |-> 18],
     [version |-> "14.21.3", semver |-> "14.21.3", versionDir |-> "14.21.3",
      name |-> "node", major |-> 14],
     [version |-> "latest", semver |-> Null, versionDir |-> Undefined,
      name |-> Undefined, major |-> -1]}

DevDir == "/devdir"
Cwd == "/cwd"
buildDir == Cwd \o "/build"
NodeGypDir == "/node-gyp"
gypScript == NodeGypDir \o "/gyp/gyp_main.py"
addonGypi == NodeGypDir \o "/addon.gypi"
\* findNodeDirectory()
NodeRootDir == "/noderoot"

\* path.resolve(name) of a fragment
fullPath(n) == Cwd \o "/" \o n

\* the ceiling of GYP_MSVS_VERSION
MsvsCeiling == 2015
Min(a, b) == IF a < b THEN a ELSE b

\* (faulty variant: common.gypi is looked for first)
configNamesSwapped == <<"common.gypi", "config.gypi">>

\* the fragment names configure looks for
configNamesInit == <<"config.gypi", "common.gypi">>

\* ---- runGyp, from its start to the stat of the common.gypi of the headers
formatArgs(av, w) ==
    IF (\A i \in 1..Len(av) : av[i] # "-f") /\ (\A i \in 1..Len(av) : av[i] # "--format")
    THEN av \o <<"-f", IF w THEN "msvs" ELSE "make">>
    ELSE av

RECURSIVE includeArgsReversed(_)
\* (faulty variant: the last config found is included first)
includeArgsReversed(cfgs) ==
    IF cfgs = <<>> THEN <<>>
    ELSE includeArgsReversed(Tail(cfgs)) \o <<"-I", Head(cfgs)>>

RECURSIVE includeArgs(_)
\* configs.forEach(config => argv.push('-I', config))
includeArgs(cfgs) ==
    IF cfgs = <<>> THEN <<>> ELSE <<"-I", Head(cfgs)>> \o includeArgs(Tail(cfgs))

needsExports(p) == p \in {"aix", "os390", "os400"}

exportsCandidates(p) ==
    IF p = "aix" \/ p = "os400"
    THEN <<"include/node/node.exp", "out/Release/node.exp", "out/Debug/node.exp",
           "node.exp">>
    ELSE <<"out/Release/lib.target/libnode.x", "out/Debug/lib.target/libnode.x",
           "out/Release/obj.target/libnode.x", "out/Debug/obj.target/libnode.x",
           "lib/libnode.x">>

zoslibCandidates ==
    <<"include/node/zoslib/zos-base.h", "include/zoslib/zos-base.h",
      "zoslib/include/zos-base.h", "install/include/node/zoslib/zos-base.h">>

\* findAccessibleSync(logprefix, dir, candidates): the first candidate that
\* can be opened for reading, or undefined
findAccessibleSync(readable, dir, candidates) ==
    LET hits == {i \in 1..Len(candidates) : (dir \o "/" \o candidates[i]) \in readable}
    IN  IF hits = {} THEN Undefined
        ELSE dir \o "/" \o candidates[CHOOSE i \in hits : \A j \in hits : i <= j]

\* the exports file of runGyp, or the error it ends with
nodeExpFile(p, readable) ==
    IF needsExports(p)
    THEN findAccessibleSync(readable, NodeRootDir, exportsCandidates(p))
    ELSE Undefined

\* zoslib on os390: the path of zos-base.h, or undefined
zoslibIncPath(readable, zoslibIncludes) ==
    IF Truthy(zoslibIncludes)
    THEN findAccessibleSync(readable, zoslibIncludes, <<"zos-base.h">>)
    ELSE findAccessibleSync(readable, NodeRootDir, zoslibCandidates)

\* the error runGyp ends with before its stat, or NoError
runGypError(p, readable, zoslibIncludes, rel) ==
    IF needsExports(p) /\ nodeExpFile(p, readable) = Undefined
    THEN NewError(<<"Could not find node.", IF p = "os390" THEN "x" ELSE "exp",
                    "file in", NodeRootDir>>)
    ELSE IF p = "os390" /\ zoslibIncPath(readable, zoslibIncludes) = Undefined
              /\ rel.major >= 16
    THEN NewError(<<"Could not find zos-base.h">>)
    ELSE NoError

\* (faulty variant: the script and the manifest are put last)
unshiftPositionalsLast(av) == av \o <<gypScript, "binding.gyp">>

\* argv.unshift('binding.gyp'), then argv.unshift(gypScript)
unshiftPositionals(av) == <<gypScript>> \o (<<"binding.gyp">> \o av)

\* the arguments runGyp adds after the stat (err: whether the stat failed)
runGypArgs(av, p, w, dir, statFailed, o, rel, expFile, zoslibPath) ==
    LET commonGypi == IF statFailed THEN dir \o "/common.gypi"
                      ELSE dir \o "/include/node/common.gypi"
        outputDir == IF w THEN buildDir ELSE "build"
        nodeLibFile == dir \o "/"
                         \o (IF ~Truthy(o.nodedir) THEN "<(target_arch)" ELSE "$(Configuration)")
                         \o "/" \o rel.name \o ".lib"
        pushed ==
            av \o <<"-I", addonGypi, "-I", commonGypi, "-Dlibrary=shared_library",
                    "-Dvisibility=default", "-Dnode_root_dir=" \o dir>>
               \o (IF needsExports(p) THEN <<"-Dnode_exp_file=" \o expFile>> ELSE <<>>)
               \o (IF p = "os390" /\ zoslibPath # Undefined
                   THEN <<"-Dzoslib_include_dir=dirname(" \o zoslibPath \o ")">> ELSE <<>>)
               \o <<"-Dnode_gyp_dir=" \o NodeGypDir, "-Dnode_lib_file=" \o nodeLibFile,
                    "-Dmodule_root_dir=" \o Cwd,
                    "-Dnode_engine=" \o Or(o.node_engine, "v8"), "--depth=.",
                    "--no-parallel", "--generator-output", outputDir,
                    "-Goutput_dir=.">>
    IN  unshiftPositionals(pushed)

\* onCpExit(code): what the callback is given
onCpExitError(code) ==
    IF code # "0" THEN NewError(<<"gyp", "failed with exit code:", code>>)
    ELSE NoError

\* ---- configure(gyp, argv, callback), up to the call of findPython
ConfigureOpts ==
    [nodedir : {<<>>, <<"~", "/", "n">>, <<"/", "n", "~">>}, tarball : {"", "node.tgz"},
     node_engine : {""}]
Homedirs == {<<"/", "h">>, <<"/", "h", "$", "$">>}
ConfigureArgv == {<<>>, <<"--format", "ninja">>}
FragmentStates == {"present", "absent", "EACCES"}
Fragments == [{"config.gypi", "common.gypi"} -> FragmentStates]

\* the callback of configure
Callback(err) ==
    /\ callbacks' = Append(callbacks, err)
    /\ pc' = "done"

Step(what) == steps' = Append(steps, what)
Answer(err) == results' = Append(results, err)

configure(p, o, zoslibIncludes, av, rel, home, frags, readable) ==
    /\ cmd = "none"
    /\ cmd' = "configure"
    /\ platform' = p
    /\ opts' = [opts EXCEPT !.nodedir = o.nodedir, !.tarball = o.tarball,
                            !.node_engine = o.node_engine]
    /\ env' = [env EXCEPT !.ZOSLIB_INCLUDES = zoslibIncludes]
    /\ fsys' = [fsys EXCEPT !.fragments = frags, !.readable = readable]
    /\ argv' = av
    /\ release' = rel
    /\ homedir' = home
    /\ configNames' = configNamesInit
    /\ configs' = <<>>
    /\ Step("findPython")
    /\ pc' = "findPython"
    /\ UNCHANGED <<buildOnly, python, nodeDir, spawns, exit, callbacks, installs, name,
                   results>>

\* (faulty variant: the version is never refused)
invalidVersionNever(rel) == FALSE

\* !release.semver
invalidVersion(rel) == rel.semver = Null

\* (faulty variant: the headers of the host's version are installed)
installVersionsHost(rel) == <<"18.0.0">>

\* the versions gyp.commands.install is given
installVersions(rel) == <<rel.version>>

\* (faulty variant: the build directory is not created)
createBuildDirSkipped ==
    /\ Step("createConfigGypi")
    /\ pc' = "createConfigGypi"

\* createBuildDir: the mkdir of the build directory is started
createBuildDir ==
    /\ Step("mkdir")
    /\ pc' = "mkdirBuild"

\* ---- the callback of findPython, then getNodeDir
getNodeDir(err, found) ==
    /\ cmd = "configure" /\ pc = "findPython"
    /\ Answer(err)
    /\ IF err # NoError
       THEN /\ Callback(err)
            /\ UNCHANGED <<python, env, nodeDir, opts, installs, steps>>
       ELSE /\ python' = found
            /\ env' = [env EXCEPT !.PYTHON = found]
            /\ IF Truthy(opts.nodedir)
               THEN /\ nodeDir' = expandNodedir(opts.nodedir, homedir)
                    /\ createBuildDir
                    /\ UNCHANGED <<opts, installs, callbacks>>
               ELSE IF invalidVersion(release)
               THEN /\ Callback(NewError(<<"Invalid version number:", release.version>>))
                    /\ UNCHANGED <<nodeDir, opts, installs, steps>>
               ELSE /\ opts' = [opts EXCEPT !.ensure = ~Truthy(opts.tarball)]
                    /\ installs' = Append(installs, installVersions(release))
                    /\ Step("install")
                    /\ pc' = "install"
                    /\ UNCHANGED <<nodeDir, callbacks>>
    /\ UNCHANGED <<platform, fsys, cmd, argv, buildOnly, spawns, exit, release, homedir,
                   configs, configNames, name>>

\* ---- the callback of gyp.commands.install
installCallback(err) ==
    /\ cmd = "configure" /\ pc = "install"
    /\ Answer(err)
    /\ IF err # NoError
       THEN /\ Callback(err)
            /\ UNCHANGED <<nodeDir, steps>>
       ELSE /\ nodeDir' = DevDir \o "/" \o release.versionDir
            /\ createBuildDir
            /\ UNCHANGED callbacks
    /\ UNCHANGED <<platform, fsys, cmd, opts, env, argv, buildOnly, python, spawns, exit,
                   release, homedir, configs, configNames, name, installs>>

\* ---- createConfigFile(err, vsInfo), up to the call of createConfigGypi
createConfigFile(err, vsInfo) ==
    IF err # NoError
    THEN /\ Callback(err)
         /\ UNCHANGED <<env, steps>>
    ELSE /\ env' = IF win
                   THEN [env EXCEPT !.GYP_MSVS_VERSION = Min(vsInfo.versionYear, MsvsCeiling),
                                    !.GYP_MSVS_OVERRIDE_PATH = vsInfo.path]
                   ELSE env
         /\ Step("createConfigGypi")
         /\ pc' = "createConfigGypi"
         /\ UNCHANGED callbacks

NoVsInfo == [path |-> "", versionYear |-> 0]

\* ---- the callback of fs.mkdir(buildDir, {recursive: true})
mkdirCallback(err) ==
    /\ cmd = "configure" /\ pc = "mkdirBuild"
    /\ Answer(err)
    /\ IF err # NoError
       THEN /\ Callback(err)
            /\ UNCHANGED <<fsys, env, steps>>
       ELSE /\ fsys' = [fsys EXCEPT !.buildDir = "present"]
            /\ IF win
               THEN /\ Step("findVisualStudio")
                    /\ pc' = "findVisualStudio"
                    /\ UNCHANGED <<env, callbacks>>
               ELSE createConfigFile(NoError, NoVsInfo)
    /\ UNCHANGED <<platform, cmd, opts, argv, buildOnly, python, nodeDir, spawns, exit,
                   release, homedir, configs, configNames, name, installs>>

\* ---- the callback of findVisualStudio (Windows)
findVisualStudioCallback(err, vsInfo) ==
    /\ cmd = "configure" /\ pc = "findVisualStudio"
    /\ Answer(err)
    /\ createConfigFile(err, vsInfo)
    /\ UNCHANGED <<platform, fsys, cmd, opts, argv, buildOnly, python, nodeDir, spawns,
                   exit, release, homedir, configs, configNames, name, installs>>

\* ---- runGyp(), up to the stat of the common.gypi of the headers tree
runGyp(cfgs) ==
    /\ argv' = formatArgs(argv, win) \o includeArgs(cfgs)
    /\ IF runGypError(platform, fsys.readable, env.ZOSLIB_INCLUDES, release) # NoError
       THEN /\ Callback(runGypError(platform, fsys.readable, env.ZOSLIB_INCLUDES, release))
            /\ UNCHANGED steps
       ELSE /\ Step("stat commonGypi")
            /\ pc' = "statCommonGypi"
            /\ UNCHANGED callbacks

\* ---- findConfigs(), with cfgs the configs found so far
findConfigs(cfgs) ==
    /\ configs' = cfgs
    /\ IF configNames # <<>>
       THEN /\ name' = Head(configNames)
            /\ configNames' = Tail(configNames)
            /\ Step("stat " \o Head(configNames))
            /\ pc' = "stat"
            /\ UNCHANGED <<argv, callbacks>>
       ELSE /\ name' = Undefined
            /\ UNCHANGED configNames
            /\ runGyp(cfgs)

\* the artifact createConfigGypi writes
writtenArtifact(dir, py, msbuild) ==
    ArtifactFile("Release", <<"x", "6", "4">>, py, msbuild)

\* ---- createConfigGypi(...) settles: .then(configPath => ...).catch(...)
createConfigGypiSettled(err) ==
    /\ cmd = "configure" /\ pc = "createConfigGypi"
    /\ Answer(err)
    /\ IF err # NoError
       THEN /\ Callback(err)
            /\ UNCHANGED <<fsys, configs, configNames, name, argv, steps>>
       ELSE /\ fsys' = [fsys EXCEPT !.artifact = writtenArtifact(nodeDir, python,
                                                   env.GYP_MSVS_OVERRIDE_PATH),
                                    !.writes = @ + 1]
            /\ findConfigs(Append(configs, buildDir \o "/config.gypi"))
    /\ UNCHANGED <<platform, cmd, opts, env, buildOnly, python, nodeDir, spawns, exit,
                   release, homedir, installs>>

\* (faulty variant: every fragment is there)
statErrorNone(fs, n) == NoError

\* what fs.stat(fullPath) of a fragment answers
statError(fs, n) ==
    IF fs.fragments[n] = "present" THEN NoError
    ELSE IF fs.fragments[n] = "absent" THEN FsError("ENOENT")
    ELSE FsError(fs.fragments[n])

\* (faulty variant: every stat error is taken for a missing file)
statContinuesAlways(err) == TRUE

\* a stat error after which findConfigs checks the next name
statContinues(err) == err.code = "ENOENT"

\* ---- the callback of the stat in findConfigs
findConfigsStat ==
    /\ cmd = "configure" /\ pc = "stat"
    /\ Answer(statError(fsys, name))
    /\ LET err == statError(fsys, name)
       IN  IF err # NoError
           THEN IF statContinues(err)
                THEN findConfigs(configs)
                ELSE /\ Callback(err)
                     /\ UNCHANGED <<configs, configNames, name, argv, steps>>
           ELSE findConfigs(Append(configs, fullPath(name)))
    /\ UNCHANGED <<platform, fsys, cmd, opts, env, buildOnly, python, nodeDir, spawns, exit,
                   release, homedir, installs>>

\* ---- the callback of the stat in runGyp: the generator is spawned
runGypStat(statFailed) ==
    /\ cmd = "configure" /\ pc = "statCommonGypi"
    /\ Answer(IF statFailed THEN FsError("ENOENT") ELSE NoError)
    /\ argv' = runGypArgs(argv, platform, win, nodeDir, statFailed, opts, release,
                          nodeExpFile(platform, fsys.readable),
                          zoslibIncPath(fsys.readable, env.ZOSLIB_INCLUDES))
    /\ env' = [env EXCEPT !.PYTHONPATH = <<NodeGypDir \o "/gyp/pylib">> \o env.PYTHONPATH]
    /\ Spawn(python, argv')
    /\ Step("spawn")
    /\ pc' = "child"
    /\ UNCHANGED <<platform, fsys, cmd, opts, buildOnly, python, nodeDir, exit, callbacks,
                   release, homedir, configs, configNames, name, installs>>

\* ---- onCpExit(code)
onCpExit(ev) ==
    /\ cmd = "configure" /\ pc = "child"
    /\ exit' = ev
    /\ Callback(onCpExitError(ev.code))
    /\ UNCHANGED <<platform, fsys, cmd, opts, env, argv, buildOnly, python, nodeDir,
                   spawns, release, homedir, configs, configNames, name, installs, steps,
                   results>>

\* ================================================================ system
vars == <<platform, cpus, verbose, fsys, cmd, pc, opts, env, argv, command, jobs,
          buildType, config, arch, nodeDir, guessedSolution, python,
          buildBinsDir, spawns, exit, settled, callbacks, release, homedir,
          configs, configNames, name, installs, steps, results>>

\* what of the machine a configure run on platform p reads below the
\* directory of the running node
Readables(p) ==
    IF p = "aix" \/ p = "os400"
    THEN [readable : {{}, {NodeRootDir \o "/out/Release/node.exp"}}, zoslib : {""}]
    ELSE IF p = "os390"
    THEN [readable : {{}, {NodeRootDir \o "/lib/libnode.x"},
                      {NodeRootDir \o "/lib/libnode.x",
                       NodeRootDir \o "/include/zoslib/zos-base.h"}},
          zoslib : {"", "/zoslib"}]
    ELSE [readable : {{}}, zoslib : {""}]

VsInfos == {[path |-> "C:/VS2013", versionYear |-> 2013],
            [path |-> "C:/VS2022", versionYear |-> 2022]}

Init ==
    /\ platform = "linux"
    /\ cpus = 1
    /\ verbose = FALSE
    /\ fsys = [artifact |-> [kind |-> "absent", code |-> "ENOENT", data |-> NoConfig],
               bins |-> "absent", python3 |-> "absent", mkdirs |-> 0,
               onPath |-> {}, slns |-> <<>>, buildDir |-> "absent",
               fragments |-> [n \in {"config.gypi", "common.gypi"} |-> "absent"],
               readable |-> {}, writes |-> 0]
    /\ cmd = "none"
    /\ pc = "none"
    /\ opts = [debug |-> Undefined, make |-> "", jobs |-> <<>>, solution |-> "",
               nodedir |-> <<>>, tarball |-> "", ensure |-> FALSE, node_engine |-> ""]
    /\ env = [MAKE |-> "", JOBS |-> <<>>, PATH |-> <<"/usr/bin">>, PYTHON |-> "",
              PYTHONPATH |-> <<>>, GYP_MSVS_VERSION |-> 0,
              GYP_MSVS_OVERRIDE_PATH |-> "", ZOSLIB_INCLUDES |-> ""]
    /\ argv = <<>>
    /\ command = ""
    /\ jobs = <<>>
    /\ buildType = ""
    /\ config = NoConfig
    /\ arch = <<>>
    /\ nodeDir = ""
    /\ guessedSolution = ""
    /\ python = Undefined
    /\ buildBinsDir = ""
    /\ spawns = <<>>
    /\ exit = [code |-> Null, signal |-> Null]
    /\ settled = Pending
    /\ callbacks = <<>>
    /\ release = [version |-> "", semver |-> Null, versionDir |-> Undefined,
                  name |-> Undefined, major |-> -1]
    /\ homedir = <<>>
    /\ configs = <<>>
    /\ configNames = <<>>
    /\ name = Undefined
    /\ installs = <<>>
    /\ steps = <<>>
    /\ results = <<>>

\* the process is started as a build run
BuildStart ==
    /\ cmd = "none"
    /\ \E p \in Platforms, ncpu \in 1..MaxCpus, verb \in BOOLEAN, c \in BuildCalls,
          av \in BuildArgv :
            \E w \in BuildWorlds(p) : build(p, ncpu, verb, c.opts, c.env, av, w)

\* the completions a build run waits for
BuildSteps ==
    \/ loadConfigGypi
    \/ findSolutionFile
    \/ doWhich
    \/ \E err \in {"", "EACCES"} : doBuildMkdir(err)
    \/ doBuildUnlink
    \/ doBuildSymlink
    \/ \E ev \in ExitEvents : onExit(ev)
    \/ \E err \in {"", "EBUSY"} : onExitRm(err)
    \/ buildCallback

\* a build run
BuildNext == BuildStart \/ BuildSteps

\* a configure run
ConfigureNext ==
    \/ /\ cmd = "none"
       /\ \E p \in Platforms, o \in ConfigureOpts, av \in ConfigureArgv,
             rel \in Releases, home \in Homedirs, frags \in Fragments :
               \E r \in Readables(p) :
                 configure(p, o, r.zoslib, av, rel, home, frags, r.readable)
    \/ \E found \in {"/usr/bin/python3.11"} : getNodeDir(NoError, found)
    \/ getNodeDir(NewError(<<"Could not find any Python installation to use">>), Undefined)
    \/ \E err \in {NoError, FsError("ENOTFOUND")} : installCallback(err)
    \/ \E err \in {NoError, FsError("EACCES")} : mkdirCallback(err)
    \/ \E vsInfo \in VsInfos : findVisualStudioCallback(NoError, vsInfo)
    \/ findVisualStudioCallback(NewError(<<"Could not find any Visual Studio installation to use">>), NoVsInfo)
    \/ \E err \in {NoError, FsError("EACCES")} : createConfigGypiSettled(err)
    \/ findConfigsStat
    \/ \E statFailed \in BOOLEAN : runGypStat(statFailed)
    \/ \E ev \in ExitEvents : onCpExit(ev)

Next == BuildNext \/ ConfigureNext

Spec == Init /\ [][Next]_vars

\* The build runs alone, with every completion the program waits for
\* arriving in the end: the file system answers and the child exits.
FairBuild == Init /\ [][BuildNext]_vars /\ WF_vars(BuildSteps)


\* ================================================================ claims

\* C1: a build run whose build/config.gypi does not exist fails with the
\* "run configure first" error, spawns no process and never creates
\* build/node_gyp_bins; any other read error is passed on unchanged, also
\* without a spawn.
C1_NoArtifactNoSpawn ==
    (cmd = "build" /\ fsys.artifact.kind # "file") =>
        /\ spawns = <<>>
        /\ fsys.mkdirs = 0
        /\ buildBinsDir = ""
        /\ pc \in {"readFile", "settled", "done"}
        /\ pc # "readFile" =>
             settled = [state |-> "rejected",
                        err |-> IF fsys.artifact.kind = "absent"
                                THEN [code |-> Undefined, msg |-> <<ConfigureFirst>>]
                                ELSE [code |-> fsys.artifact.code,
                                      msg |-> <<fsys.artifact.code>>]]
        /\ pc = "done" => callbacks = <<settled.err>>

C1_Witness ==
    /\ cmd = "build" /\ pc = "done"
    /\ fsys.artifact.kind = "absent"
    /\ callbacks = <<[code |-> Undefined, msg |-> <<ConfigureFirst>>]>>
    /\ spawns = <<>>

\* C2: on a platform other than Windows, once the build executor is
\* spawned, build/node_gyp_bins exists and its python3 is a symlink to the
\* interpreter of the artifact for as long as the child runs, and the
\* directory is absent when the build reports its outcome, whatever the
\* child's exit code or signal.
C2_BinsDuringRun ==
    (cmd = "build" /\ ~win /\ spawns # <<>>) =>
        /\ pc = "child" =>
             /\ fsys.bins = "present"
             /\ fsys.python3 = config.variables.python
             /\ fsys.python3 \notin {Undefined, "absent", "dir"}
        /\ pc \in {"settled", "done"} => fsys.bins = "absent"

C2_Witness ==
    /\ cmd = "build" /\ ~win /\ pc = "done"
    /\ Len(spawns) = 1
    /\ exit.signal # Null
    /\ fsys.bins = "absent"

\* C3: every build run (not Windows) that created build/node_gyp_bins has
\* removed it when the run ends, on every path by which it ends.
C3_BinsReleased ==
    (cmd = "build" /\ ~win /\ pc = "done" /\ fsys.mkdirs > 0) => fsys.bins = "absent"

\* C4: when a signal ends the build executor (no exit code), the build
\* fails with an error that names the command and the signal.
C4_SignalNamed ==
    (cmd = "build" /\ pc = "done" /\ spawns # <<>> /\ exit.signal # Null) =>
        /\ Len(callbacks) = 1
        /\ Names(callbacks[1], command)
        /\ Names(callbacks[1], exit.signal)

\* C5: in both commands, once the child has exited and its exit handler
\* has run to its end, the command has succeeded if and only if the exit
\* code is 0, and for an exit code c other than 0 it has failed with an
\* error that names c (and the command; "gyp" for the generator).
C5_ExitCodeDecides ==
    (cmd \in {"build", "configure"} /\ spawns # <<>> /\ pc \in {"done", "unhandled"}) =>
        /\ (exit.code = "0") <=> (callbacks = <<NoError>>)
        /\ exit.code \notin {"0", Null} =>
             /\ Len(callbacks) = 1
             /\ Names(callbacks[1], exit.code)
             /\ Names(callbacks[1], IF cmd = "build" THEN command ELSE "gyp")

\* C6 (as stated): without --nodedir, a target version equal to the
\* version of the host is never installed, and any other valid version is
\* installed exactly once.
C6_NoInstallForHostVersion ==
    (cmd = "configure" /\ ~Truthy(opts.nodedir) /\ release.semver # Null) =>
        IF "v" \o release.version = ProcessVersion
        THEN installs = <<>>
        ELSE python # Undefined => installs = << <<release.version>> >>

\* C6 (amended): without --nodedir, once the interpreter is found, every
\* valid target version, the host's own version included, is installed
\* exactly once, and nothing is installed before that or for a version
\* that does not parse.
C6_InstallOnce ==
    (cmd = "configure" /\ ~Truthy(opts.nodedir)) =>
        IF release.semver # Null /\ python # Undefined
        THEN installs = << <<release.version>> >>
        ELSE installs = <<>>

C6_Witness ==
    /\ cmd = "configure" /\ pc = "done" /\ ~Truthy(opts.nodedir)
    /\ "v" \o release.version = ProcessVersion
    /\ installs = << <<"18.0.0">> >>
    /\ spawns # <<>>

\* the override with only a leading ~ replaced by the home directory
tildeExpanded(dir, home) ==
    IF dir # <<>> /\ Head(dir) = "~" THEN Join(home \o Tail(dir)) ELSE Join(dir)

\* C7: with --nodedir nothing is ever installed, and the headers directory
\* of the run, the one the generator is given, is the override with only a
\* leading ~ replaced by the home directory.
C7_NodedirVerbatim ==
    (cmd = "configure" /\ Truthy(opts.nodedir)) =>
        /\ installs = <<>>
        /\ python # Undefined => nodeDir = tildeExpanded(opts.nodedir, homedir)
        /\ spawns # <<>> =>
             \E i \in 1..Len(spawns[1].argv) :
                spawns[1].argv[i] = "-Dnode_root_dir=" \o tildeExpanded(opts.nodedir, homedir)

\* the error of a version that does not parse
InvalidVersion == [code |-> Undefined, msg |-> <<"Invalid version number:", release.version>>]

\* C8 (as stated): a run whose release has semver null fails with the
\* invalid-version error before every other step: no interpreter is
\* resolved or published, nothing is installed, no build directory is
\* made, no toolchain resolved, no artifact written, no generator spawned.
C8_InvalidVersionFirst ==
    (cmd = "configure" /\ release.semver = Null) =>
        /\ python = Undefined
        /\ env.PYTHON = ""
        /\ installs = <<>>
        /\ fsys.buildDir = "absent"
        /\ env.GYP_MSVS_OVERRIDE_PATH = ""
        /\ fsys.writes = 0
        /\ spawns = <<>>
        /\ pc = "done" => callbacks = <<InvalidVersion>>

\* C8 (amended): a run without --nodedir whose release has semver null
\* fails with the invalid-version error right after the interpreter is
\* resolved and published (with the error of the interpreter lookup when
\* that fails), and before every other step: nothing is installed, no
\* build directory is made, no toolchain resolved, no artifact written,
\* no generator spawned.
C8_InvalidVersionAfterPython ==
    (cmd = "configure" /\ release.semver = Null /\ ~Truthy(opts.nodedir)) =>
        /\ steps = <<"findPython">>
        /\ installs = <<>>
        /\ fsys.buildDir = "absent"
        /\ env.GYP_MSVS_OVERRIDE_PATH = ""
        /\ fsys.writes = 0
        /\ spawns = <<>>
        /\ pc \in {"findPython", "done"}
        /\ pc = "done" =>
             IF results = <<NoError>>
             THEN python # Undefined /\ env.PYTHON = python /\ callbacks = <<InvalidVersion>>
             ELSE python = Undefined /\ env.PYTHON = "" /\ callbacks = results

C8_Witness ==
    /\ cmd = "configure" /\ pc = "done"
    /\ release.semver = Null /\ ~Truthy(opts.nodedir)
    /\ env.PYTHON = "/usr/bin/python3.11"
    /\ callbacks = <<[code |-> Undefined, msg |-> <<"Invalid version number:", "latest">>]>>

\* the steps of a configure run that reaches the spawn of the generator
stepsToSpawn ==
    <<"findPython">>
        \o (IF Truthy(opts.nodedir) THEN <<>> ELSE <<"install">>)
        \o <<"mkdir">>
        \o (IF win THEN <<"findVisualStudio">> ELSE <<>>)
        \o <<"createConfigGypi", "stat config.gypi", "stat common.gypi",
             "stat commonGypi", "spawn">>

\* C9: a configure run spawns the generator at most once, writes the
\* artifact at most once, and spawns only after every predecessor has
\* answered, in this order: interpreter, headers directory (with the
\* install when there is no --nodedir), build directory, Visual Studio
\* (Windows), artifact, the stat of both fragment names.
C9_GeneratorAfterAll ==
    cmd = "configure" =>
        /\ Len(spawns) <= 1
        /\ fsys.writes <= 1
        /\ spawns # <<>> =>
             /\ steps = stepsToSpawn
             /\ Len(results) = Len(steps) - 1
             /\ python # Undefined /\ env.PYTHON = python
             /\ spawns[1].command = python
             /\ nodeDir # ""
             /\ ~Truthy(opts.nodedir) =>
                  /\ Len(installs) = 1
                  /\ results[2] = NoError
                  /\ nodeDir = DevDir \o "/" \o release.versionDir
             /\ fsys.buildDir = "present"
             /\ win => env.GYP_MSVS_OVERRIDE_PATH # ""
             /\ fsys.writes = 1
             /\ configs # <<>> /\ configs[1] = buildDir \o "/config.gypi"
             /\ configNames = <<>>

C9_Witness ==
    /\ cmd = "configure" /\ pc = "child"
    /\ win /\ ~Truthy(opts.nodedir)
    /\ Len(spawns) = 1
    /\ Len(steps) = 9

\* an answer that ends the run: any error but a missing fragment and the
\* missing common.gypi of the headers tree
fatalAnswer(i) ==
    /\ results[i] # NoError
    /\ ~(steps[i] \in {"stat config.gypi", "stat common.gypi"}
           /\ results[i].code = "ENOENT")
    /\ steps[i] # "stat commonGypi"

\* C10: a configure run calls its callback at most once and only when it
\* ends; no step is started twice, a step starts only after the one before
\* has answered, an answer that is a failure is the last answer, starts no
\* further step, spawns no generator and is what the callback is given;
\* a run that ends without a spawn has failed, and after a spawn the
\* callback is given the outcome of the generator.
C10_FailFast ==
    cmd = "configure" =>
        /\ Len(callbacks) <= 1
        /\ (callbacks # <<>>) <=> (pc = "done")
        /\ \A i, j \in 1..Len(steps) : steps[i] = steps[j] => i = j
        /\ Len(results) <= Len(steps)
        /\ Len(steps) <= Len(results) + 1
        /\ \A i \in 1..Len(results) :
             fatalAnswer(i) =>
                /\ i = Len(results)
                /\ Len(steps) = i
                /\ callbacks = <<results[i]>>
                /\ spawns = <<>>
        /\ (pc = "done" /\ spawns = <<>>) =>
             /\ callbacks[1] # NoError
             /\ Len(steps) = Len(results)
             /\ ~fatalAnswer(Len(results)) =>
                  \/ /\ steps = <<"findPython">>
                     /\ callbacks = <<InvalidVersion>>
                  \/ /\ steps[Len(steps)] = "stat common.gypi"
                     /\ platform \in {"aix", "os390", "os400"}
                     /\ callbacks[1].code = Undefined
        /\ (pc = "done" /\ spawns # <<>>) =>
             callbacks = <<IF exit.code = "0" THEN NoError
                           ELSE [code |-> Undefined,
                                 msg |-> <<"gyp", "failed with exit code:", exit.code>>]>>

C10_Witness ==
    /\ cmd = "configure" /\ pc = "done"
    /\ fsys.fragments["common.gypi"] = "EACCES"
    /\ steps[Len(steps)] = "stat common.gypi"
    /\ callbacks = <<[code |-> "EACCES", msg |-> <<"EACCES">>]>>
    /\ spawns = <<>>


RECURSIVE valuesOf(_, _)
\* the arguments that follow the flag in av, in order
valuesOf(av, flag) ==
    IF Len(av) < 2 THEN <<>>
    ELSE IF Head(av) = flag THEN <<av[2]>> \o valuesOf(Tail(Tail(av)), flag)
    ELSE valuesOf(Tail(av), flag)

\* whether the executable of the build run can be located
located ==
    IF win
    THEN fsys.slns # <<>> /\ Truthy(fsys.artifact.data.variables.msbuild_path)
    ELSE command \in fsys.onPath

\* C11: a build run spawns the executor at most once and only after the
\* artifact is loaded and the executable located; a run that went past
\* the symlink has spawned exactly once, a run that ends without a spawn
\* although both succeeded has failed in the setup of the symlink, and a
\* run whose executable cannot be located (Windows: no build/*.sln or no
\* msbuild_path; elsewhere: the make command is not on the search path)
\* never spawns and never creates build/node_gyp_bins.
C11_SpawnOnce ==
    cmd = "build" =>
        /\ Len(spawns) <= 1
        /\ spawns # <<>> =>
             /\ fsys.artifact.kind = "file"
             /\ config = fsys.artifact.data
             /\ located
             /\ spawns[1].command = IF win THEN config.variables.msbuild_path ELSE command
        /\ pc \in {"child", "rm", "unhandled"} => Len(spawns) = 1
        /\ (pc \in {"settled", "done"} /\ spawns = <<>> /\ fsys.artifact.kind = "file"
              /\ located) =>
             /\ ~win
             /\ settled.err.code \in {"EACCES", "EISDIR", "ERR_INVALID_ARG_TYPE"}
        /\ (fsys.artifact.kind = "file" /\ ~located) =>
             /\ spawns = <<>>
             /\ fsys.mkdirs = 0
             /\ buildBinsDir = ""
             /\ pc \in {"readFile", "glob", "which", "settled", "done"}

C11_Witness ==
    /\ cmd = "build" /\ pc = "done" /\ win
    /\ fsys.slns # <<>>
    /\ fsys.artifact.kind = "file"
    /\ ~Truthy(fsys.artifact.data.variables.msbuild_path)
    /\ spawns = <<>>
    /\ fsys.mkdirs = 0
    /\ callbacks # <<NoError>>

\* the include directives the headers tree can add last
commonGypis == {nodeDir \o "/include/node/common.gypi", nodeDir \o "/common.gypi"}

\* C12: when config.gypi and common.gypi are both in the working
\* directory, the generator is given their include directives in this
\* order, and both before the two built-in ones: the addon defaults, then
\* the common file of the headers tree.
C12_FragmentsFirst ==
    (cmd = "configure" /\ spawns # <<>>
       /\ fsys.fragments["config.gypi"] = "present"
       /\ fsys.fragments["common.gypi"] = "present") =>
        LET inc == valuesOf(spawns[1].argv, "-I")
            n == Len(inc)
        IN  /\ n >= 4
            /\ inc[n - 3] = "/cwd/config.gypi"
            /\ inc[n - 2] = "/cwd/common.gypi"
            /\ inc[n - 1] = addonGypi
            /\ inc[n] \in commonGypis
            /\ \A i \in 1..(n - 4) : inc[i] \notin {"/cwd/config.gypi", "/cwd/common.gypi",
                                                    addonGypi} \cup commonGypis

C12_Witness ==
    /\ cmd = "configure" /\ pc = "child"
    /\ fsys.fragments["config.gypi"] = "present"
    /\ fsys.fragments["common.gypi"] = "present"
    /\ Len(spawns) = 1
    /\ Len(valuesOf(spawns[1].argv, "-I")) = 5

\* C13 (as stated): when neither fragment is in the working directory, the
\* generator is given exactly two include directives, the two built-in
\* ones.
C13_OnlyBuiltins ==
    (cmd = "configure" /\ spawns # <<>>
       /\ fsys.fragments["config.gypi"] = "absent"
       /\ fsys.fragments["common.gypi"] = "absent") =>
        LET inc == valuesOf(spawns[1].argv, "-I")
        IN  /\ Len(inc) = 2
            /\ inc[1] = addonGypi
            /\ inc[2] \in commonGypis

\* C13 (amended): when neither fragment is in the working directory, the
\* generator is given exactly three include directives: the artifact
\* build/config.gypi the run has just written, then the two built-in ones
\* (the addon defaults, then the common file of the headers tree).
C13_ArtifactAndBuiltins ==
    (cmd = "configure" /\ spawns # <<>>
       /\ fsys.fragments["config.gypi"] = "absent"
       /\ fsys.fragments["common.gypi"] = "absent") =>
        LET inc == valuesOf(spawns[1].argv, "-I")
        IN  /\ Len(inc) = 3
            /\ inc[1] = "/cwd/build/config.gypi"
            /\ inc[2] = addonGypi
            /\ inc[3] \in commonGypis

C13_Witness ==
    /\ cmd = "configure" /\ pc = "done"
    /\ fsys.fragments["config.gypi"] = "absent"
    /\ fsys.fragments["common.gypi"] = "absent"
    /\ Len(spawns) = 1
    /\ valuesOf(spawns[1].argv, "-I")[1] = "/cwd/build/config.gypi"
    /\ callbacks = <<NoError>>

\* the build type the precedence gives: the debug flag, else the stored
\* default_configuration, else Release
precedenceBuildType ==
    IF opts.debug # Undefined
    THEN (IF opts.debug = "true" THEN "Debug" ELSE "Release")
    ELSE IF fsys.artifact.data.target_defaults.default_configuration # ""
    THEN fsys.artifact.data.target_defaults.default_configuration
    ELSE "Release"

\* the arguments that give the executor a build type
IsBuildTypeArg(a) ==
    \E t \in {"Debug", "Release"} :
        \/ a = "BUILDTYPE=" \o t
        \/ \E k \in {"x64", "ARM", "ARM64", "Win32"} :
              a = "/p:Configuration=" \o t \o ";Platform=" \o k

\* C14: the build type the executor is given is the one of the debug flag
\* when the caller gave it (Debug if true, Release if false), else the
\* default_configuration of the artifact, else Release; and no step of a
\* build run changes the artifact.
C14_BuildTypePrecedence ==
    /\ [](cmd = "build" =>
            /\ fsys.writes = 0
            /\ spawns # <<>> =>
                 SelectSeq(spawns[1].argv, IsBuildTypeArg) =
                    <<IF win
                      THEN "/p:Configuration=" \o precedenceBuildType \o ";Platform="
                              \o msbuildPlatform(fsys.artifact.data.variables.target_arch)
                      ELSE "BUILDTYPE=" \o precedenceBuildType>>)
    /\ [][cmd = "build" => fsys'.artifact = fsys.artifact]_vars

C14_Witness ==
    /\ cmd = "build" /\ pc = "done"
    /\ opts.debug = "false"
    /\ fsys.artifact.kind = "file"
    /\ fsys.artifact.data.target_defaults.default_configuration = "Debug"
    /\ Len(spawns) = 1
    /\ \E i \in 1..Len(spawns[1].argv) : spawns[1].argv[i] = "BUILDTYPE=Release"

\* a job count that is written as an integer, and one without any digit
isInteger(s) == s # <<>> /\ \A i \in 1..Len(s) : IsDigit(s[i])
hasNoDigit(s) == \A i \in 1..Len(s) : ~IsDigit(s[i])

\* the parallelism flag of MSBuild
IsMaxCpuCount(a) == \E n \in 0..9 : a = "/m:" \o ToString(n)

\* C15: the job count is the option, else JOBS of the environment; an
\* integer above 0 gives exactly one parallelism flag with that integer,
\* max in any letter case gives exactly one with the number of cores of
\* the host, and any other value without a digit, or no value, gives no
\* parallelism flag.
C15_JobCount ==
    (cmd = "build" /\ spawns # <<>>) =>
        LET js == IF Truthy(opts.jobs) THEN opts.jobs ELSE env.JOBS
            flags == IF win THEN SelectSeq(spawns[1].argv, IsMaxCpuCount)
                     ELSE valuesOf(spawns[1].argv, "--jobs")
            flag(n) == IF win THEN "/m:" \o ToString(n) ELSE ToString(n)
        IN  IF isInteger(js) /\ DecVal(js, 0) > 0
            THEN flags = <<flag(DecVal(js, 0))>>
            ELSE IF toLowerCase(js) = <<"m", "a", "x">>
            THEN flags = <<flag(cpus)>>
            ELSE hasNoDigit(js) =>
                   /\ flags = <<>>
                   /\ \A i \in 1..Len(spawns[1].argv) : spawns[1].argv[i] # "--jobs"

C15_Witness ==
    /\ cmd = "build" /\ pc = "done" /\ ~win
    /\ opts.jobs = <<"M", "a", "x">>
    /\ cpus = 2
    /\ Len(spawns) = 1
    /\ valuesOf(spawns[1].argv, "--jobs") = <<"2">>

\* the arguments that select a configuration or a platform of MSBuild
IsSelector(a) ==
    \E t \in {"Debug", "Release"}, k \in {"x64", "ARM", "ARM64", "Win32"} :
        \/ a = "/p:Configuration=" \o t \o ";Platform=" \o k
        \/ a = "/p:Configuration=" \o t
        \/ a = "/p:Platform=" \o k

\* the platform token of an architecture, whatever the case of its letters
platformToken(a) ==
    LET lower == toLowerCase(a)
    IN  CASE lower = <<"x", "6", "4">> -> "x64"
          [] lower = <<"a", "r", "m">> -> "ARM"
          [] lower = <<"a", "r", "m", "6", "4">> -> "ARM64"
          [] OTHER -> "Win32"

\* C16: on Windows the executor is given the build type and the platform
\* token in one argument /p:Configuration=<type>;Platform=<token>, and the
\* token is x64, ARM, ARM64 for the architectures x64, arm, arm64 in any
\* letter case and Win32 for every other architecture.
C16_PlatformToken ==
    (cmd = "build" /\ win /\ spawns # <<>>) =>
        SelectSeq(spawns[1].argv, IsSelector) =
            <<"/p:Configuration=" \o buildType \o ";Platform="
                \o platformToken(fsys.artifact.data.variables.target_arch)>>

C16_Witness ==
    /\ cmd = "build" /\ win /\ pc = "done"
    /\ fsys.artifact.data.variables.target_arch = <<"A", "R", "M", "6", "4">>
    /\ Len(spawns) = 1
    /\ \E i \in 1..Len(spawns[1].argv) :
          spawns[1].argv[i] = "/p:Configuration=Debug;Platform=ARM64"

\* the make command the precedence gives: the option, else MAKE of the
\* environment, else gmake on aix, os400 and the BSDs and make elsewhere
precedenceMake ==
    IF Truthy(opts.make) THEN opts.make
    ELSE IF Truthy(env.MAKE) THEN env.MAKE
    ELSE IF platform \in {"aix", "os400", "freebsd"} THEN "gmake"
    ELSE "make"

\* C17: on a platform other than Windows the build command is the make
\* option, else MAKE of the environment, else the default of the platform
\* (gmake on aix, os400 and the BSDs, make elsewhere), and the run goes
\* past the search of the command, and spawns, only when the command is
\* on the search path.
C17_MakeCommand ==
    (cmd = "build" /\ ~win) =>
        /\ command = precedenceMake
        /\ pc \in {"mkdir", "unlink", "symlink", "child", "rm", "unhandled"} =>
             precedenceMake \in fsys.onPath
        /\ spawns # <<>> =>
             /\ spawns[1].command = precedenceMake
             /\ precedenceMake \in fsys.onPath

C17_Witness ==
    /\ cmd = "build" /\ pc = "done"
    /\ platform = "freebsd"
    /\ ~Truthy(opts.make) /\ ~Truthy(env.MAKE)
    /\ Len(spawns) = 1
    /\ spawns[1].command = "gmake"

\* C18: the arguments the generator is spawned with start with the path
\* of the generator script and then binding.gyp; neither comes again, and
\* the arguments of the caller and the format flag come after them.
C18_PositionalsFirst ==
    (cmd = "configure" /\ spawns # <<>>) =>
        LET av == spawns[1].argv
        IN  /\ Len(av) > 2
            /\ av[1] = "/node-gyp/gyp/gyp_main.py"
            /\ av[2] = "binding.gyp"
            /\ \A i \in 3..Len(av) : av[i] \notin {"/node-gyp/gyp/gyp_main.py", "binding.gyp"}
            /\ \E i \in 3..Len(av) : av[i] \in {"-f", "--format"}
            /\ (\E i \in 1..Len(av) : av[i] = "--format") =>
                 /\ av[3] = "--format"
                 /\ av[4] = "ninja"

C18_Witness ==
    /\ cmd = "configure" /\ pc = "child"
    /\ Len(spawns) = 1
    /\ spawns[1].argv[1] = "/node-gyp/gyp/gyp_main.py"
    /\ spawns[1].argv[3] = "--format"

\* what the stat of a fragment answers, by the state of the fragment
statAnswer(n) ==
    CASE fsys.fragments[n] = "present" -> [code |-> Null, msg |-> <<>>]
      [] fsys.fragments[n] = "absent" -> [code |-> "ENOENT", msg |-> <<"ENOENT">>]
      [] OTHER -> [code |-> fsys.fragments[n], msg |-> <<fsys.fragments[n]>>]

\* the fragments found so far, in the order config.gypi, common.gypi
foundSoFar ==
    LET found(n) == IF \E i \in 1..Len(results) :
                          steps[i] = "stat " \o n /\ results[i].code = Null
                    THEN <<"/cwd/" \o n>> ELSE <<>>
    IN  found("config.gypi") \o found("common.gypi")

\* C19: the fragments are looked for one at a time, config.gypi and then
\* common.gypi; after a missing file (ENOENT), as after a file found, the
\* search goes on with the next name; any other error of a stat ends the
\* run with that error, with no further name looked at and no generator
\* spawned; the paths found are collected in the order they were found.
C19_FragmentDiscovery ==
    cmd = "configure" =>
        /\ \A i \in 1..Len(steps) :
             /\ steps[i] = "stat config.gypi" => i > 1 /\ steps[i - 1] = "createConfigGypi"
             /\ steps[i] = "stat common.gypi" =>
                  /\ i > 1 /\ steps[i - 1] = "stat config.gypi"
                  /\ results[i - 1].code \in {Null, "ENOENT"}
        /\ \A i \in 1..Len(results) :
             \A n \in {"config.gypi", "common.gypi"} :
                steps[i] = "stat " \o n =>
                   /\ results[i] = statAnswer(n)
                   /\ results[i].code \in {Null, "ENOENT"} =>
                        /\ n = "config.gypi" =>
                             Len(steps) > i /\ steps[i + 1] = "stat common.gypi"
                        /\ n = "common.gypi" =>
                             \/ Len(steps) > i /\ steps[i + 1] = "stat commonGypi"
                             \/ /\ platform \in {"aix", "os390", "os400"}
                                /\ Len(steps) = i /\ pc = "done"
                                /\ callbacks[1].code = Undefined
                   /\ results[i].code \notin {Null, "ENOENT"} =>
                        /\ Len(steps) = i
                        /\ pc = "done"
                        /\ callbacks = <<results[i]>>
                        /\ spawns = <<>>
        /\ configs = (IF fsys.writes = 1 THEN <<"/cwd/build/config.gypi">> ELSE <<>>)
                        \o foundSoFar

C19_Witness ==
    /\ cmd = "configure" /\ pc = "done"
    /\ fsys.fragments["config.gypi"] = "absent"
    /\ fsys.fragments["common.gypi"] = "present"
    /\ Len(spawns) = 1
    /\ configs = <<"/cwd/build/config.gypi", "/cwd/common.gypi">>

\* C20: when the child exits in the end and every call of the file system
\* completes in the end, a build run that has spawned the executor calls
\* its callback in the end, also when the removal of build/node_gyp_bins
\* in the exit handler fails.
C20_Reports ==
    (cmd = "build" /\ spawns # <<>>) ~> (Len(callbacks) = 1)

=============================================================================
